---- MODULE Spec2Model ----
(***************************************************************************)
(* Model of markdown-gen (src/markdown/mod.rs): the element tree, its      *)
(* construction operations, and the serialization of a tree to a byte      *)
(* sink.  A byte is a one-character string, a text fragment a sequence of  *)
(* bytes.  An io::Result is "Ok" or the sink's error value; a panic is the *)
(* outcome "Panic".                                                        *)
(***************************************************************************)
EXTENDS Integers, Sequences, FiniteSets, TLC

VARIABLES stack, writer, last, status, made

vars == <<stack, writer, last, status, made>>

(***************************************************************************)
(* Bounds of the exploration.                                              *)
(***************************************************************************)
MaxLen == 2
MaxBudget == 4
MaxNodes == 3
MaxStack == 2

(***************************************************************************)
(* Program constants.                                                      *)
(***************************************************************************)
MaxLevel == 6

NoLimit == 0 - 1

Normal == "Normal"
InlineCode == "InlineCode"
Escaping == {Normal, InlineCode}

\* The byte b'\x60' (the backtick, the code fence character), which cannot be
\* written inside a TLA+ string.
Backtick == "BACKTICK"

\* Variant: the escape set without the backslash itself.
NormalEscape_no_backslash ==
    <<Backtick, "*", "_", "{", "}", "[", "]", "(", ")", "#", "+", "-", ".", "!">>

\* The escape set of the Normal context: backslash, backtick and
\* * _ { } [ ] ( ) # + - . !
NormalEscape ==
    <<"\\", Backtick, "*", "_", "{", "}", "[", "]", "(", ")", "#", "+", "-", ".", "!">>

ErrKinds == {"WriteZero", "BrokenPipe"}

(***************************************************************************)
(* Byte-slice helpers.                                                     *)
(***************************************************************************)
contains(slice, x) == \E i \in DOMAIN slice : slice[i] = x

\* Iterator::position: index (from 1) of the first byte of data that the
\* escape slice contains, 0 for None.
position(data, escape) ==
    IF \E i \in DOMAIN data : contains(escape, data[i])
      THEN CHOOSE i \in DOMAIN data :
             /\ contains(escape, data[i])
             /\ \A j \in 1..(i - 1) : ~contains(escape, data[j])
      ELSE 0

repeat(b, n) == [i \in 1..n |-> b]

reverse(s) == [i \in 1..Len(s) |-> s[Len(s) + 1 - i]]

(***************************************************************************)
(* The sink behind &mut dyn Write: buf holds the bytes it has accepted,    *)
(* budget the number of bytes it will still accept (NoLimit: any number)   *)
(* before it fails every write with the error value err.  fails counts the *)
(* write_all calls of the current serialization call that the sink has     *)
(* failed.                                                                 *)
(***************************************************************************)
NewSink(budget, err) ==
    [buf |-> <<>>, budget |-> budget, err |-> err, failed |-> FALSE, fails |-> 0]

Ok(w) == [w |-> w, res |-> "Ok"]

\* Write::write_all: an empty slice never reaches the sink; a failing write
\* keeps the bytes the sink accepted before it failed.
write_all(w, data) ==
    IF data = <<>> THEN Ok(w)
    ELSE IF w.failed THEN [w |-> [w EXCEPT !.fails = @ + 1], res |-> w.err]
    ELSE IF w.budget = NoLimit THEN Ok([w EXCEPT !.buf = @ \o data])
    ELSE IF Len(data) <= w.budget
      THEN Ok([w EXCEPT !.buf = @ \o data, !.budget = @ - Len(data)])
    ELSE [w |-> [w EXCEPT !.buf = @ \o SubSeq(data, 1, w.budget),
                          !.budget = 0, !.failed = TRUE, !.fails = @ + 1],
          res |-> w.err]

\* The ? operator: an Err (or an unwinding panic) ends the function with
\* that outcome, Ok goes on with the rest.
Try(r, rest(_)) == IF r.res # "Ok" THEN r ELSE rest(r.w)

(***************************************************************************)
(* Elements.                                                               *)
(***************************************************************************)
Str(text) == [kind |-> "Str", text |-> text]

RichText_new(text) ==
    [kind |-> "RichText", bold |-> FALSE, italic |-> FALSE, code |-> FALSE,
     text |-> text]

Paragraph_new == [kind |-> "Paragraph", children |-> <<>>]

\* Heading::new, for a level that passes its assertion.
Heading_new(level) == [kind |-> "Heading", children |-> <<>>, level |-> level]

Heading_new_panics(level) == ~(level > 0 /\ level <= MaxLevel)

Link_new(address) == [kind |-> "Link", children |-> <<>>, address |-> address]

\* Paragraph::append, Heading::append, Link::append
append(parent, element) == [parent EXCEPT !.children = Append(@, element)]

IsComposite(el) == el.kind \in {"Paragraph", "Heading", "Link"}

(***************************************************************************)
(* Escaping engine and streak counter.                                     *)
(***************************************************************************)
\* Variant: the escaped byte itself is not written after its backslash.
RECURSIVE write_escaped_dropped(_, _, _)
write_escaped_dropped(w, data, escape) ==
    LET slice_at == position(data, escape) IN
    IF slice_at = 0
      THEN write_all(w, data)
      ELSE Try(write_all(w, SubSeq(data, 1, slice_at - 1)), LAMBDA w1 :
           Try(write_all(w1, <<"\\">>), LAMBDA w2 :
           write_escaped_dropped(w2, SubSeq(data, slice_at + 1, Len(data)), escape)))

RECURSIVE write_escaped(_, _, _)
write_escaped(w, data, escape) ==
    LET slice_at == position(data, escape) IN
    IF slice_at = 0
      THEN write_all(w, data)
      ELSE Try(write_all(w, SubSeq(data, 1, slice_at - 1)), LAMBDA w1 :
           Try(write_all(w1, <<"\\">>), LAMBDA w2 :
           Try(write_all(w2, SubSeq(data, slice_at, slice_at)), LAMBDA w3 :
           write_escaped(w3, SubSeq(data, slice_at + 1, Len(data)), escape))))

\* <&str as MarkdownWritable>::count_max_streak: <<max, current>>
RECURSIVE streak_loop(_, _, _, _, _)
streak_loop(bytes, i, char, max, current) ==
    IF i > Len(bytes) THEN <<max, current>>
    ELSE IF bytes[i] = char
      THEN streak_loop(bytes, i + 1, char, max, current + 1)
      ELSE streak_loop(bytes, i + 1, char,
                       IF current > max THEN current ELSE max, 0)

str_count_max_streak(text, char, carry) == streak_loop(text, 1, char, 0, carry)

(***************************************************************************)
(* MarkdownWritable::write_to for each element kind.                       *)
(***************************************************************************)
str_write_to(text, w, inner, escape) ==
    Try(IF escape = Normal THEN write_escaped(w, text, NormalEscape)
                           ELSE write_all(w, text), LAMBDA w1 :
    IF ~inner THEN write_all(w1, <<"\n", "\n">>) ELSE Ok(w1))

RichText_symbol(el) ==
    (IF el.bold THEN <<"*", "*">> ELSE <<>>)
    \o (IF el.italic THEN <<"*">> ELSE <<>>)
    \o (IF el.code
          THEN repeat(Backtick, str_count_max_streak(el.text, Backtick, 0)[1] + 1) \o <<" ">>
          ELSE <<>>)

RichText_write_to(el, w, inner, escape) ==
    LET symbol == RichText_symbol(el)
        esc    == IF el.code THEN InlineCode ELSE escape
    IN  Try(write_all(w, symbol), LAMBDA w1 :
        Try(str_write_to(el.text, w1, TRUE, esc), LAMBDA w2 :
        Try(write_all(w2, reverse(symbol)), LAMBDA w3 :
        IF ~inner THEN write_all(w3, <<"\n">>) ELSE Ok(w3))))

RECURSIVE write_to(_, _, _, _)
RECURSIVE write_children(_, _, _)

\* Variant: the loop drops a child's io::Result and goes on with the next.
RECURSIVE write_children_unchecked(_, _, _)
write_children_unchecked(children, w, escape) ==
    IF children = <<>> THEN Ok(w)
    ELSE LET r == write_to(Head(children), w, TRUE, escape) IN
         IF r.res = "Panic" THEN r
         ELSE write_children_unchecked(Tail(children), r.w, escape)

\* for child in &self.children { child.write_to(writer, true, escape)?; }
write_children(children, w, escape) ==
    IF children = <<>> THEN Ok(w)
    ELSE Try(write_to(Head(children), w, TRUE, escape), LAMBDA w1 :
         write_children(Tail(children), w1, escape))

\* Variant: no assertion on inner.
Paragraph_write_to_unchecked(el, w, inner, escape) ==
    Try(write_children(el.children, w, escape), LAMBDA w1 :
    write_all(w1, <<"\n", "\n">>))

Paragraph_write_to(el, w, inner, escape) ==
    IF inner THEN [w |-> w, res |-> "Panic"]
    ELSE Try(write_children(el.children, w, escape), LAMBDA w1 :
         write_all(w1, <<"\n", "\n">>))

\* Variant: a blank line after the heading.
Heading_write_to_blank_line(el, w, inner, escape) ==
    IF inner THEN [w |-> w, res |-> "Panic"]
    ELSE Try(write_all(w, repeat("#", el.level) \o <<" ">>), LAMBDA w1 :
         Try(write_children(el.children, w1, Normal), LAMBDA w2 :
         write_all(w2, <<"\n", "\n">>)))

\* Variant: the children inherit the escaping context of the heading.
Heading_write_to_inherited(el, w, inner, escape) ==
    IF inner THEN [w |-> w, res |-> "Panic"]
    ELSE Try(write_all(w, repeat("#", el.level) \o <<" ">>), LAMBDA w1 :
         Try(write_children(el.children, w1, escape), LAMBDA w2 :
         write_all(w2, <<"\n">>)))

Heading_write_to(el, w, inner, escape) ==
    IF inner THEN [w |-> w, res |-> "Panic"]
    ELSE Try(write_all(w, repeat("#", el.level) \o <<" ">>), LAMBDA w1 :
         Try(write_children(el.children, w1, Normal), LAMBDA w2 :
         write_all(w2, <<"\n">>)))

\* Variant: the address is written as it is.
Link_write_to_raw_address(el, w, inner, escape) ==
    Try(write_all(w, <<"[">>), LAMBDA w1 :
    Try(write_children(el.children, w1, escape), LAMBDA w2 :
    Try(write_all(w2, <<"]", "(">>), LAMBDA w3 :
    Try(write_all(w3, el.address), LAMBDA w4 :
    Try(write_all(w4, <<")">>), LAMBDA w5 :
    IF ~inner THEN write_all(w5, <<"\n">>) ELSE Ok(w5))))))

Link_write_to(el, w, inner, escape) ==
    Try(write_all(w, <<"[">>), LAMBDA w1 :
    Try(write_children(el.children, w1, escape), LAMBDA w2 :
    Try(write_all(w2, <<"]", "(">>), LAMBDA w3 :
    Try(str_write_to(el.address, w3, TRUE, escape), LAMBDA w4 :
    Try(write_all(w4, <<")">>), LAMBDA w5 :
    IF ~inner THEN write_all(w5, <<"\n">>) ELSE Ok(w5))))))

\* Dynamic dispatch on the element kind.
write_to(el, w, inner, escape) ==
    CASE el.kind = "Str"       -> str_write_to(el.text, w, inner, escape)
      [] el.kind = "RichText"  -> RichText_write_to(el, w, inner, escape)
      [] el.kind = "Link"      -> Link_write_to(el, w, inner, escape)
      [] el.kind = "Heading"   -> Heading_write_to(el, w, inner, escape)
      [] el.kind = "Paragraph" -> Paragraph_write_to(el, w, inner, escape)

\* Markdown::write on a sink that starts over at every call.
Markdown_write_fresh(w, element) ==
    write_to(element, [w EXCEPT !.buf = <<>>], FALSE, Normal)

\* Markdown::write
Markdown_write(w, element) == write_to(element, w, FALSE, Normal)

(***************************************************************************)
(* MarkdownWritable::count_max_streak for each element kind: <<max streak, *)
(* streak still open at the end>>.                                         *)
(***************************************************************************)
RECURSIVE count_max_streak(_, _, _)
RECURSIVE count_children(_, _, _, _)

\* for child in &self.children { let (c, cr) = child.count_max_streak(char,
\* carry); count += c; carry = cr; }: <<count, carry>> after the loop.
count_children(children, char, count, carry) ==
    IF children = <<>> THEN <<count, carry>>
    ELSE LET r == count_max_streak(Head(children), char, carry) IN
         count_children(Tail(children), char, count + r[1], r[2])

Paragraph_count_max_streak(el, char, carry) ==
    <<count_children(el.children, char, 0, carry)[1], 0>>

Heading_count_max_streak(el, char, carry) ==
    count_children(el.children, char, 0, 0)

Link_count_max_streak(el, char, carry) ==
    LET addr  == str_count_max_streak(el.address, char, 0)[1]
        count == count_children(el.children, char, 0, 0)[1]
    IN  IF count > addr THEN <<count, 0>> ELSE <<addr, 0>>

RichText_count_max_streak(el, char, carry) ==
    <<str_count_max_streak(el.text, char, 0)[1], 0>>

\* Dynamic dispatch on the element kind.
count_max_streak(el, char, carry) ==
    CASE el.kind = "Str"       -> str_count_max_streak(el.text, char, carry)
      [] el.kind = "RichText"  -> RichText_count_max_streak(el, char, carry)
      [] el.kind = "Link"      -> Link_count_max_streak(el, char, carry)
      [] el.kind = "Heading"   -> Heading_count_max_streak(el, char, carry)
      [] el.kind = "Paragraph" -> Paragraph_count_max_streak(el, char, carry)

(***************************************************************************)
(* AsMarkdown conversions.  A conversion yields Panicked where the source  *)
(* panics; Paragraph and Heading implement no conversion.                  *)
(***************************************************************************)
Panicked == [kind |-> "Panic"]

Convertible(el) == el.kind \in {"Str", "RichText", "Link"}

as_paragraph(el) == append(Paragraph_new, el)

as_heading(el, level) ==
    IF Heading_new_panics(level) THEN Panicked ELSE append(Heading_new(level), el)

as_link_to(el, address) ==
    IF el.kind = "Link" THEN Panicked ELSE append(Link_new(address), el)

as_rich(el) == IF el.kind = "Str" THEN RichText_new(el.text) ELSE el

as_bold(el) ==
    IF el.kind = "Link" THEN Panicked ELSE [as_rich(el) EXCEPT !.bold = TRUE]

as_italic(el) ==
    IF el.kind = "Link" THEN Panicked ELSE [as_rich(el) EXCEPT !.italic = TRUE]

as_code(el) ==
    IF el.kind = "Link" THEN Panicked ELSE [as_rich(el) EXCEPT !.code = TRUE]

(***************************************************************************)
(* Inputs.                                                                 *)
(***************************************************************************)
Alphabet ==
    {"a", "\\", Backtick, "*", "_", "{", "}", "[", "]", "(", ")", "#", "+", "-",
     ".", "!"}

AllTexts == UNION {[1..n -> Alphabet] : n \in 0..MaxLen}

TreeTexts == {<<"a", Backtick>>, <<"[", ".", ")">>}

Addresses == {<<"a">>, <<"(", "]", ".">>}

Levels == 0..(MaxLevel + 1)

TreeLevels == {0, 1}

Budgets == 0..MaxBudget \cup {NoLimit}

\* Markdown::new(writer), for a sink of any capacity and error value.
Markdown_new(budget, err) == NewSink(budget, err)

Sinks == {Markdown_new(budget, err) : budget \in Budgets, err \in ErrKinds}

TextSinks == {Markdown_new(budget, "WriteZero") : budget \in Budgets}

(***************************************************************************)
(* State: stack holds the values the caller has built and not yet written  *)
(* (the last one is the most recent), writer the sink of the Markdown      *)
(* struct, last the most recent operation and its outcome, status          *)
(* whether the caller is running or has panicked, made the number of       *)
(* elements constructed so far.                                            *)
(***************************************************************************)
NoEl == [kind |-> "None"]

Op(op, el, arg, inner, escape, res) ==
    [op |-> op, el |-> el, arg |-> arg, inner |-> inner, escape |-> escape,
     before |-> writer.buf, res |-> res]

Built(op, el, arg, res) == Op(op, el, arg, FALSE, Normal, res)

NoOp(w) == [op |-> "Markdown::new", el |-> NoEl, arg |-> <<>>, inner |-> FALSE,
            escape |-> Normal, before |-> w.buf, res |-> "Ok"]

Top == stack[Len(stack)]

Below == SubSeq(stack, 1, Len(stack) - 1)

Running == status = "running"

Init ==
    /\ stack = <<>>
    /\ writer \in Sinks
    /\ last = NoOp(writer)
    /\ status = "running"
    /\ made = 0

\* The outcome of a constructor or conversion applied to the top value:
\* the result replaces the top, or the caller panics.
Replace(op, arg, result) ==
    /\ last' = Built(op, Top, arg, IF result.kind = "Panic" THEN "Panic" ELSE "Ok")
    /\ IF result.kind = "Panic"
         THEN /\ status' = "panicked"
              /\ stack' = stack
         ELSE /\ status' = status
              /\ stack' = Append(Below, result)
    /\ UNCHANGED writer

\* A text fragment of the caller.
PushStr(s) ==
    /\ Running
    /\ Len(stack) < MaxStack
    /\ made < MaxNodes
    /\ stack' = Append(stack, Str(s))
    /\ last' = Built("str", Str(s), <<>>, "Ok")
    /\ made' = made + 1
    /\ UNCHANGED <<writer, status>>

ParagraphNew ==
    /\ Running
    /\ Len(stack) < MaxStack
    /\ made < MaxNodes
    /\ stack' = Append(stack, Paragraph_new)
    /\ last' = Built("Paragraph::new", Paragraph_new, <<>>, "Ok")
    /\ made' = made + 1
    /\ UNCHANGED <<writer, status>>

HeadingNew(level) ==
    /\ Running
    /\ Len(stack) < MaxStack
    /\ made < MaxNodes
    /\ made' = made + 1
    /\ UNCHANGED writer
    /\ IF Heading_new_panics(level)
         THEN /\ status' = "panicked"
              /\ stack' = stack
              /\ last' = Built("Heading::new", NoEl, level, "Panic")
         ELSE /\ status' = status
              /\ stack' = Append(stack, Heading_new(level))
              /\ last' = Built("Heading::new", Heading_new(level), level, "Ok")

LinkNew(address) ==
    /\ Running
    /\ Len(stack) < MaxStack
    /\ made < MaxNodes
    /\ stack' = Append(stack, Link_new(address))
    /\ last' = Built("Link::new", Link_new(address), address, "Ok")
    /\ made' = made + 1
    /\ UNCHANGED <<writer, status>>

AsParagraph ==
    /\ Running
    /\ stack # <<>>
    /\ Convertible(Top)
    /\ made < MaxNodes
    /\ made' = made + 1
    /\ Replace("as_paragraph", <<>>, as_paragraph(Top))

AsHeading(level) ==
    /\ Running
    /\ stack # <<>>
    /\ Convertible(Top)
    /\ made < MaxNodes
    /\ made' = made + 1
    /\ Replace("as_heading", level, as_heading(Top, level))

AsLinkTo(address) ==
    /\ Running
    /\ stack # <<>>
    /\ Convertible(Top)
    /\ made < MaxNodes
    /\ made' = made + 1
    /\ Replace("as_link_to", address, as_link_to(Top, address))

AsBold ==
    /\ Running
    /\ stack # <<>>
    /\ Convertible(Top)
    /\ Replace("as_bold", <<>>, as_bold(Top))
    /\ UNCHANGED made

AsItalic ==
    /\ Running
    /\ stack # <<>>
    /\ Convertible(Top)
    /\ Replace("as_italic", <<>>, as_italic(Top))
    /\ UNCHANGED made

AsCode ==
    /\ Running
    /\ stack # <<>>
    /\ Convertible(Top)
    /\ Replace("as_code", <<>>, as_code(Top))
    /\ UNCHANGED made

\* parent.append(child): the child is the most recent value, the parent the
\* one built before it.
AppendTo(op) ==
    /\ stack' = Append(SubSeq(stack, 1, Len(stack) - 2),
                       append(stack[Len(stack) - 1], Top))
    /\ last' = Built(op, stack[Len(stack) - 1], Top, "Ok")
    /\ UNCHANGED <<writer, status, made>>

ParagraphAppend ==
    /\ Running
    /\ Len(stack) >= 2
    /\ stack[Len(stack) - 1].kind = "Paragraph"
    /\ AppendTo("Paragraph::append")

HeadingAppend ==
    /\ Running
    /\ Len(stack) >= 2
    /\ stack[Len(stack) - 1].kind = "Heading"
    /\ AppendTo("Heading::append")

LinkAppend ==
    /\ Running
    /\ Len(stack) >= 2
    /\ stack[Len(stack) - 1].kind = "Link"
    /\ AppendTo("Link::append")

\* The caller hands the most recent value to a serialization call, which
\* returns r.
Serialize(op, inner, escape, r) ==
    /\ writer' = r.w
    /\ last' = Op(op, Top, <<>>, inner, escape, r.res)
    /\ status' = IF r.res = "Panic" THEN "panicked" ELSE status
    /\ stack' = Below
    /\ UNCHANGED made

\* The sink as a serialization call finds it.
Call(w) == [w EXCEPT !.fails = 0]

\* md.write(element)
Write ==
    /\ Running
    /\ stack # <<>>
    /\ Serialize("write", FALSE, Normal, Markdown_write(Call(writer), Top))

\* element.write_to(writer, inner, escape), the public trait method
WriteTo(inner, escape) ==
    /\ Running
    /\ stack # <<>>
    /\ Serialize("write_to", inner, escape,
                 write_to(Top, Call(writer), inner, escape))

Next ==
    \/ \E s \in TreeTexts : PushStr(s)
    \/ ParagraphNew
    \/ \E level \in TreeLevels : HeadingNew(level)
    \/ \E address \in Addresses : LinkNew(address)
    \/ AsParagraph
    \/ \E level \in TreeLevels : AsHeading(level)
    \/ \E address \in Addresses : AsLinkTo(address)
    \/ ParagraphAppend
    \/ HeadingAppend
    \/ LinkAppend
    \/ Write
    \/ \E inner \in BOOLEAN, escape \in Escaping : WriteTo(inner, escape)

Spec == Init /\ [][Next]_vars

(***************************************************************************)
(* Text fragments and rich-text spans: every fragment up to MaxLen bytes   *)
(* over the escape set and one ordinary byte, styled and written.          *)
(***************************************************************************)
InitText ==
    /\ stack \in {<<Str(s)>> : s \in AllTexts}
    /\ writer \in TextSinks
    /\ last = NoOp(writer)
    /\ status = "running"
    /\ made = 1

NextText ==
    \/ AsBold
    \/ AsItalic
    \/ AsCode
    \/ \E address \in Addresses : AsLinkTo(address)
    \/ Write

SpecText == InitText /\ [][NextText]_vars

(***************************************************************************)
(* Headings: every level, with text children appended in order, written    *)
(* through the document and through write_to in every context.             *)
(***************************************************************************)
InitHeading ==
    /\ stack = <<>>
    /\ writer \in TextSinks
    /\ last = NoOp(writer)
    /\ status = "running"
    /\ made = 0

NextHeading ==
    \/ \E s \in TreeTexts : PushStr(s)
    \/ \E level \in Levels : HeadingNew(level)
    \/ \E level \in Levels : AsHeading(level)
    \/ HeadingAppend
    \/ Write
    \/ \E inner \in BOOLEAN, escape \in Escaping : WriteTo(inner, escape)

SpecHeading == InitHeading /\ [][NextHeading]_vars

(***************************************************************************)
(* The three elements of the end-to-end scenario, built and then written   *)
(* in order to one document whose sink may fail at any byte.               *)
(***************************************************************************)
MaxScenarioBudget == 60

heading1 == <<"h", "e", "a", "d", "i", "n", "g", "1">>

heading2 == <<"h", "e", "a", "d", "i", "n", "g", "2">>

appended == <<" ", "a", "p", "p", "e", "n", "d", "e", "d">>

first_paragraph ==
    <<"f", "i", "r", "s", "t", "\n", "p", "a", "r", "a", "g", "r", "a", "p", "h">>

ScenarioElements ==
    << append(as_paragraph(Str(first_paragraph)), Str(appended)),
       append(as_heading(Str(heading2), 2), Str(appended)),
       as_heading(Str(heading1), 1) >>

InitScenario ==
    /\ stack = ScenarioElements
    /\ writer \in {Markdown_new(budget, "WriteZero") :
                     budget \in 0..MaxScenarioBudget \cup {NoLimit}}
    /\ last = NoOp(writer)
    /\ status = "running"
    /\ made = 7

NextScenario == Write

SpecScenario == InitScenario /\ [][NextScenario]_vars

(***************************************************************************)
(* The streak counter: trees over every text up to MaxLen bytes of one     *)
(* fence byte and one ordinary byte, counted for either byte and every     *)
(* carry up to MaxCarry.                                                   *)
(***************************************************************************)
MaxCarry == 2

StreakBytes == {"a", Backtick}

StreakTexts == UNION {[1..n -> StreakBytes] : n \in 0..MaxLen}

StreakAddresses == {<<"a">>, <<Backtick, Backtick, "a">>}

\* element.count_max_streak(char, carry), the public trait method; the
\* element is borrowed and stays with the caller.
CountMaxStreak(char, carry) ==
    /\ Running
    /\ stack # <<>>
    /\ last' = Built("count_max_streak", Top,
                     [char |-> char, carry |-> carry,
                      streak |-> count_max_streak(Top, char, carry)], "Ok")
    /\ UNCHANGED <<stack, writer, status, made>>

InitStreak ==
    /\ stack = <<>>
    /\ writer = Markdown_new(NoLimit, "WriteZero")
    /\ last = NoOp(writer)
    /\ status = "running"
    /\ made = 0

\* Fragments whose runs open, close and stay open at either end.
StreakTreeTexts == {<<Backtick, "a">>, <<"a", Backtick>>, <<Backtick>>}

NextStreak ==
    \/ \E s \in StreakTreeTexts : PushStr(s)
    \/ AsCode
    \/ ParagraphNew
    \/ \E level \in TreeLevels : HeadingNew(level)
    \/ \E address \in StreakAddresses : LinkNew(address)
    \/ ParagraphAppend
    \/ HeadingAppend
    \/ LinkAppend
    \/ \E char \in StreakBytes, carry \in 0..MaxCarry : CountMaxStreak(char, carry)

SpecStreak == InitStreak /\ [][NextStreak]_vars

\* The counter on text fragments alone, over every text up to MaxLen bytes.
NextStreakText ==
    \/ \E s \in StreakTexts : PushStr(s)
    \/ \E char \in StreakBytes, carry \in 0..MaxCarry : CountMaxStreak(char, carry)

SpecStreakText == InitStreak /\ [][NextStreakText]_vars

(***************************************************************************)
(* Properties.  Output is what the last serialization call added to the    *)
(* sink; the characterizations below are stated byte by byte,              *)
(* independently of the loops of the implementation.                       *)
(***************************************************************************)
Output == SubSeq(writer.buf, Len(last.before) + 1, Len(writer.buf))

Wrote(op) == last.op = op /\ last.res = "Ok"

NormalSet ==
    {"\\", Backtick, "*", "_", "{", "}", "[", "]", "(", ")", "#", "+", "-", ".", "!"}

\* Every byte of s in order, each byte of set preceded by one backslash.
RECURSIVE EscapedBy(_, _)
EscapedBy(s, set) ==
    IF s = <<>> THEN <<>>
    ELSE (IF Head(s) \in set THEN <<"\\", Head(s)>> ELSE <<Head(s)>>)
         \o EscapedBy(Tail(s), set)

\* The unescape rule of the format: drop a backslash, keep the byte after it.
RECURSIVE Unescape(_)
Unescape(s) ==
    IF s = <<>> THEN <<>>
    ELSE IF Head(s) = "\\" /\ Len(s) >= 2
      THEN <<s[2]>> \o Unescape(SubSeq(s, 3, Len(s)))
      ELSE <<Head(s)>> \o Unescape(Tail(s))

IsRun(s, i, n, b) == i + n - 1 <= Len(s) /\ \A j \in i..(i + n - 1) : s[j] = b

\* Length of the longest run of byte b anywhere in s.
LongestRun(s, b) ==
    CHOOSE n \in 0..Len(s) :
      /\ n = 0 \/ \E i \in 1..Len(s) : IsRun(s, i, n, b)
      /\ \A m \in (n + 1)..Len(s) : ~\E i \in 1..Len(s) : IsRun(s, i, m, b)

\* Length of the run of byte b that starts at index i of s.
RunFrom(s, i, b) ==
    CHOOSE n \in 0..Len(s) :
      /\ n = 0 \/ IsRun(s, i, n, b)
      /\ ~IsRun(s, i, n + 1, b)

Stars(el) == (IF el.bold THEN 2 ELSE 0) + (IF el.italic THEN 1 ELSE 0)

\* C1: a text fragment written at top level in the Normal context comes out
\* as its own bytes in order, each byte of the Normal escape set preceded by
\* exactly one added backslash, followed by the block separator.
C1_NormalEscaping ==
    (Wrote("write") /\ last.el.kind = "Str")
      => Output = EscapedBy(last.el.text, NormalSet) \o <<"\n", "\n">>

C1_Witness ==
    /\ Wrote("write")
    /\ last.el = Str(<<"a", "*">>)
    /\ writer.buf = <<"a", "\\", "*", "\n", "\n">>

\* C2: a code span is fenced on both sides by one backtick more than the
\* longest run of backticks anywhere in its text.
C2_FenceLength ==
    (Wrote("write") /\ last.el.kind = "RichText" /\ last.el.code)
      => LET k == LongestRun(last.el.text, Backtick)
             out == Output
             closing == reverse(SubSeq(out, 1, Len(out) - 1))
         IN  /\ RunFrom(out, Stars(last.el) + 1, Backtick) = k + 1
             /\ RunFrom(closing, Stars(last.el) + 1, Backtick) = k + 1

\* C9: a rich-text span written at top level is followed by the blank-line
\* separator, two newline bytes, as a top-level plain text is.
C9_RichTextSeparator ==
    (Wrote("write") /\ last.el.kind = "RichText")
      => /\ Len(Output) >= 2
         /\ SubSeq(Output, Len(Output) - 1, Len(Output)) = <<"\n", "\n">>

\* C10: unescaping what a top-level text fragment wrote in the Normal context
\* gives back the fragment.
C10_RoundTrip ==
    (Wrote("write") /\ last.el.kind = "Str")
      => Unescape(SubSeq(Output, 1, Len(Output) - 2)) = last.el.text

C10_Witness ==
    /\ Wrote("write")
    /\ last.el = Str(<<"\\", "a">>)
    /\ writer.buf = <<"\\", "\\", "a", "\n", "\n">>

\* C3 as stated: the scenario leaves a blank line after the level-2 heading.
C3_ScenarioAsStated ==
    (stack = <<>> /\ Wrote("write") /\ ~writer.failed)
      => writer.buf =
           <<"#", " ">> \o heading1 \o <<"\n">>
           \o <<"#", "#", " ">> \o heading2 \o appended \o <<"\n", "\n">>
           \o first_paragraph \o appended \o <<"\n", "\n">>

\* C3: the level-1 heading, the level-2 heading with its appended text and
\* the paragraph with its appended text, written in this order to one
\* document, leave the sink holding each heading followed by one newline
\* and the paragraph followed by two.
C3_Scenario ==
    (stack = <<>> /\ Wrote("write") /\ ~writer.failed)
      => writer.buf =
           <<"#", " ">> \o heading1 \o <<"\n">>
           \o <<"#", "#", " ">> \o heading2 \o appended \o <<"\n">>
           \o first_paragraph \o appended \o <<"\n", "\n">>

C3_Witness ==
    /\ stack = <<>>
    /\ Wrote("write")
    /\ ~writer.failed
    /\ last.el.kind = "Paragraph"
    /\ Len(writer.buf) = 58

IsBlock(el) == el.kind \in {"Paragraph", "Heading"}

IsSerialization == last.op \in {"write", "write_to"}

\* The element holds a Paragraph or Heading as a child at some depth.
RECURSIVE HasInnerBlock(_)
HasInnerBlock(el) ==
    /\ IsComposite(el)
    /\ \E i \in DOMAIN el.children :
         IsBlock(el.children[i]) \/ HasInnerBlock(el.children[i])

\* C4: a Paragraph or Heading serialized with inner = true panics, in every
\* escaping context and whatever its children; a document write of a tree
\* that holds one as a child never returns Ok, and panics unless the sink
\* failed first.
C4_InnerBlockPanics ==
    IsSerialization =>
      /\ (last.inner /\ IsBlock(last.el)) => last.res = "Panic"
      /\ HasInnerBlock(last.el) =>
           /\ last.res # "Ok"
           /\ ~writer.failed => last.res = "Panic"

C4_Witness ==
    /\ last.op = "write"
    /\ last.el.kind = "Link"
    /\ HasInnerBlock(last.el)
    /\ last.res = "Panic"
    /\ status = "panicked"

C4_WitnessDirect ==
    /\ last.op = "write_to"
    /\ last.inner
    /\ last.escape = InlineCode
    /\ last.el.kind = "Paragraph"
    /\ last.el.children # <<>>
    /\ last.res = "Panic"

\* The element holds a Link below the display text of a Link.
RECURSIVE HasLink(_)
HasLink(el) ==
    \/ el.kind = "Link"
    \/ IsComposite(el) /\ \E i \in DOMAIN el.children : HasLink(el.children[i])

RECURSIVE HasLinkInLink(_)
HasLinkInLink(el) ==
    /\ IsComposite(el)
    /\ \E i \in DOMAIN el.children :
         \/ el.kind = "Link" /\ HasLink(el.children[i])
         \/ HasLinkInLink(el.children[i])

\* C5: no value the caller can build holds a Link inside the display text of
\* a Link, and no write that returns Ok has serialized such a value.
C5_NoLinkInLink ==
    /\ \A i \in DOMAIN stack : ~HasLinkInLink(stack[i])
    /\ (IsSerialization /\ last.res = "Ok") => ~HasLinkInLink(last.el)

IsPlainLink(el) ==
    /\ el.kind = "Link"
    /\ Len(el.children) = 1
    /\ el.children[1].kind = "Str"

\* C6 as stated: brackets are escaped only in the display text, parentheses
\* and dots only in the address.
C6_LinkAsStated ==
    (Wrote("write") /\ IsPlainLink(last.el))
      => Output =
           <<"[">> \o EscapedBy(last.el.children[1].text, NormalSet \ {"(", ")", "."})
           \o <<"]", "(">> \o EscapedBy(last.el.address, NormalSet \ {"[", "]"})
           \o <<")", "\n">>

\* C6: a link with plain display text t and address a written at top level
\* comes out as [ t' ]( a' ) and one newline, where t' and a' are t and a
\* with every byte of the Normal escape set escaped, in both segments alike.
C6_LinkEscaping ==
    (Wrote("write") /\ IsPlainLink(last.el))
      => Output =
           <<"[">> \o EscapedBy(last.el.children[1].text, NormalSet)
           \o <<"]", "(">> \o EscapedBy(last.el.address, NormalSet)
           \o <<")", "\n">>

C6_Witness ==
    /\ Wrote("write")
    /\ IsPlainLink(last.el)
    /\ last.el.children[1].text = <<"[", "(">>
    /\ last.el.address = <<"(", "]", ".">>
    /\ Output = <<"[", "\\", "[", "\\", "(", "]", "(",
                  "\\", "(", "\\", "]", "\\", ".", ")", "\n">>

IsPrefix(s, t) == Len(s) <= Len(t) /\ s = SubSeq(t, 1, Len(s))

\* What the element adds to a sink that never fails.
FullOutput(el) == Markdown_write(NewSink(NoLimit, "WriteZero"), el).w.buf

\* C7: when the sink fails a write during Markdown::write, the call returns
\* the sink's error, makes no further write, and leaves in the sink the
\* bytes accepted before the failure.
C7_ErrorPropagation ==
    last.op = "write" =>
      /\ writer.fails <= 1
      /\ writer.fails = 1 => last.res = writer.err
      /\ last.res \in ErrKinds => writer.fails = 1
      /\ IsPrefix(last.before, writer.buf)
      /\ IsPrefix(Output, FullOutput(last.el))

C7_Witness ==
    /\ last.op = "write"
    /\ last.res = "BrokenPipe"
    /\ last.el.kind = "Paragraph"
    /\ Len(last.el.children) = 2
    /\ Len(Output) > 0
    /\ Len(Output) < Len(FullOutput(last.el))

\* The children of a heading, each a text fragment, escaped and concatenated
\* in order.
RECURSIVE EscapedTexts(_)
EscapedTexts(children) ==
    IF children = <<>> THEN <<>>
    ELSE EscapedBy(Head(children).text, NormalSet) \o EscapedTexts(Tail(children))

AllStr(children) == \A i \in DOMAIN children : children[i].kind = "Str"

RECURSIVE LevelsValid(_)
LevelsValid(el) ==
    /\ el.kind = "Heading" => el.level \in 1..6
    /\ IsComposite(el) => \A i \in DOMAIN el.children : LevelsValid(el.children[i])

\* C8: a heading of level L in 1..6 serialized at top level, in any escaping
\* context, comes out as L marker bytes, one space, its children in append
\* order escaped as in the Normal context without separators, and one
\* newline; constructing a heading of level 0 or 7 panics, builds no
\* heading and writes nothing.
C8_Heading ==
    /\ (IsSerialization /\ last.res = "Ok" /\ ~last.inner
          /\ last.el.kind = "Heading" /\ AllStr(last.el.children))
         => /\ last.el.level \in 1..6
            /\ Output = repeat("#", last.el.level) \o <<" ">>
                        \o EscapedTexts(last.el.children) \o <<"\n">>
    /\ (last.op \in {"Heading::new", "as_heading"} /\ last.arg \in {0, 7})
         => /\ last.res = "Panic"
            /\ status = "panicked"
            /\ writer.buf = last.before
    /\ \A i \in DOMAIN stack : LevelsValid(stack[i])

C8_Witness ==
    /\ Wrote("write_to")
    /\ last.escape = InlineCode
    /\ last.el.kind = "Heading"
    /\ last.el.level = 6
    /\ last.el.children = <<Str(<<"[", ".", ")">>), Str(<<"a", Backtick>>)>>

C8_WitnessRejected ==
    /\ last.op = "Heading::new"
    /\ last.arg = 7
    /\ status = "panicked"

Counted == last.op = "count_max_streak"

\* C11: for a text fragment f, byte c and carry-in n, count_max_streak
\* returns the length of the longest run of c anywhere in n copies of c
\* followed by f, a run that reaches the end of f included, and the length
\* of the run of c still open at the end of f.
C11_StreakOfText ==
    (Counted /\ last.el.kind = "Str")
      => LET c    == last.arg.char
             f    == last.el.text
             text == repeat(c, last.arg.carry) \o f
             open == RunFrom(reverse(text), 1, c)
         IN  /\ last.arg.streak[1] = LongestRun(text, c)
             /\ last.arg.streak[2] = IF open = Len(text) THEN open
                                     ELSE RunFrom(reverse(f), 1, c)

\* The max streak each child returns, in order, with the carry handed from
\* child to child as the loop does.
RECURSIVE ChildStreaks(_, _, _)
ChildStreaks(children, char, carry) ==
    IF children = <<>> THEN <<>>
    ELSE LET r == count_max_streak(Head(children), char, carry) IN
         <<r[1]>> \o ChildStreaks(Tail(children), char, r[2])

MaxOf(S) == IF S = {} THEN 0 ELSE CHOOSE m \in S : \A n \in S : n <= m

\* C12: the max streak a Paragraph, Heading or Link returns is the maximum
\* of its children's max streaks, not their sum; for a Link the address's
\* max streak is one more candidate of that maximum.
C12_CompositeStreakIsMax ==
    (Counted /\ IsComposite(last.el))
      => LET c       == last.arg.char
             el      == last.el
             first   == IF el.kind = "Paragraph" THEN last.arg.carry ELSE 0
             streaks == ChildStreaks(el.children, c, first)
             ofKids  == {streaks[i] : i \in 1..Len(streaks)}
             ofAddr  == IF el.kind = "Link"
                        THEN {str_count_max_streak(el.address, c, 0)[1]}
                        ELSE {}
         IN  last.arg.streak[1] = MaxOf(ofKids \cup ofAddr)

\* C13: every Markdown::write call, whether it returns Ok, returns an I/O
\* error or panics, leaves the bytes already in the sink in place and only
\* appends to them; a call that returns Ok appends exactly the bytes the
\* element produces when written alone to an empty sink, so a sequence of
\* successful writes leaves the concatenation of those outputs in call
\* order.
C13_AppendOnly ==
    [][ last'.op = "write"
          => /\ IsPrefix(writer.buf, writer'.buf)
             /\ last'.res = "Ok"
                  => writer'.buf = writer.buf \o FullOutput(last'.el) ]_vars

\* A second successful write: the first element's output is already in the
\* sink and the second element's output follows it.
C13_Witness ==
    /\ Wrote("write")
    /\ last.res = "Ok"
    /\ last.before = FullOutput(Str(<<"a", Backtick>>))
    /\ FullOutput(last.el) # <<>>
    /\ writer.buf = last.before \o FullOutput(last.el)

====
